---- MODULE Spec2Model ----
(***************************************************************************)
(* A model of the fwupd DFU library: the DFU engine (src/src/dfu/mod.rs),  *)
(* the Application Protocol Layer (src/src/protocols/apl/mod.rs) and the   *)
(* configuration (src/src/dfu/config.rs).                                  *)
(*                                                                         *)
(* Five specifications share the variables:                                *)
(*   Spec     the DFU engine: DfuStream::new followed by one update()      *)
(*   SpecApl  the APL packet handlers, fed an arbitrary packet sequence    *)
(*   SpecWrap the APL packet handlers late in a session                    *)
(*   SpecLpl  the LPL receive path: from_bytes, run and decode_message     *)
(*   SpecLoad load_firmware's copy of HEX records into the image buffer    *)
(***************************************************************************)
EXTENDS Integers, Sequences, FiniteSets, TLC

VARIABLES
    config,        \* DfuStream.config (DfuConfig)
    pc,            \* position of the engine inside new()/update()
    result,        \* what update() (or new()) returned: "none" while running
    stages,        \* the stage functions update() has entered, in order
    requests,      \* every send_request call made so far, in order
    pending,       \* requests written whose response the engine never awaited
    info,          \* the InfoBlockV2 returned by read_bootloader_info
    firmware,      \* the image returned by the last load_firmware
    current_crc,   \* write_firmware's current_crc (device CRC before writing)
    device_crc,    \* verify_firmware's device_crc
    block_i,       \* index i of the chunk write_firmware sends next
    reboots,       \* number of reboot commands auto_enter has sent
    wire,          \* the frames send_request has written to the transport
    probes,        \* the outcome of each detect_bootloader call, in order
    block_number,  \* AplStream.block_number (u16)
    retries,       \* AplStream.retries
    apl_tx,        \* messages queued on AplStream.tx (the tx2 channel)
    rx2_open,      \* whether the receiving half of AplStream.tx still exists
    apl_result,    \* what the last process_message call returned
    last_msg,      \* the packet the last process_message call was given
    prev_type,     \* the type of the packet handled before last_msg
    handled,       \* number of process_message calls so far
    tx1_open,      \* whether a sender into LplStream.rx (tx1) still exists
    arrived,       \* the frames that have arrived on the transport, in order
    lpl_rx,        \* LplMessages queued on LplStream.rx
    decodings,     \* what decode_message returned for each message run() took
    delivered,     \* the AplMessages run() has sent on apl_tx, in order
    lpl_running,   \* whether run() is still in its loop
    hex,           \* the records the ihex reader yields to load_firmware
    gap_filling,   \* DfuConfig.gap_filling
    load_result    \* what load_firmware's record loop returned

dfu_vars == <<config, pc, result, stages, requests, pending, info, firmware,
              current_crc, device_crc, block_i, reboots, wire, probes>>
apl_vars == <<block_number, retries, apl_tx, rx2_open, apl_result, last_msg,
              prev_type, handled>>
lpl_vars == <<tx1_open, arrived, lpl_rx, decodings, delivered, lpl_running>>
load_vars == <<hex, gap_filling, load_result>>
vars == <<dfu_vars, apl_vars, lpl_vars, load_vars>>

(***************************************************************************)
(* Bounds of the model.                                                    *)
(***************************************************************************)
\* Size of the image buffer; max_firmware_size() is 1024 * 1024 in the source.
MaxFirmwareSize == 4
\* Largest block size configured or reported by the device.
MaxBlockSize == 3
\* Number of packets given to process_message in one run of SpecApl.
MaxPackets == 5
\* Number of frames that arrive in one run of SpecLpl.
MaxFrames == 2
\* Number of records in the HEX files of SpecLoad.
MaxRecords == 2

(***************************************************************************)
(* Arithmetic on 32-bit words, kept as <<high half, low half>>.            *)
(***************************************************************************)
\* Exclusive or of two 16-bit values, bit by bit.
XorBit(a, b, k) == ((((a \div k) % 2) + ((b \div k) % 2)) % 2) * k

Xor(a, b) ==
    XorBit(a, b, 1) + XorBit(a, b, 2) + XorBit(a, b, 4) + XorBit(a, b, 8)
    + XorBit(a, b, 16) + XorBit(a, b, 32) + XorBit(a, b, 64) + XorBit(a, b, 128)
    + XorBit(a, b, 256) + XorBit(a, b, 512) + XorBit(a, b, 1024)
    + XorBit(a, b, 2048) + XorBit(a, b, 4096) + XorBit(a, b, 8192)
    + XorBit(a, b, 16384) + XorBit(a, b, 32768)

\* One bit of the reflected CRC-32: shift right, xor the polynomial 0xEDB88320
\* when the bit shifted out is set.
Crc32Shift(w) ==
    IF w[2] % 2 = 1
    THEN <<Xor(w[1] \div 2, 60856), Xor((w[2] \div 2) + ((w[1] % 2) * 32768), 33568)>>
    ELSE <<w[1] \div 2, (w[2] \div 2) + ((w[1] % 2) * 32768)>>

\* The byte table of the crc crate for CRC_32_ISO_HDLC.
Crc32Table ==
    [b \in 0..255 |->
        Crc32Shift(Crc32Shift(Crc32Shift(Crc32Shift(
        Crc32Shift(Crc32Shift(Crc32Shift(Crc32Shift(<<0, b>>))))))))]

\* One byte of the table-driven update: table[(crc ^ byte) & 0xFF] ^ (crc >> 8)
Crc32Byte(w, byte) ==
    LET t == Crc32Table[Xor(w[2] % 256, byte)]
    IN  <<Xor(t[1], w[1] \div 256), Xor(t[2], (w[2] \div 256) + ((w[1] % 256) * 256))>>

RECURSIVE Crc32Update(_, _)
Crc32Update(w, data) ==
    IF data = <<>> THEN w
    ELSE Crc32Update(Crc32Byte(w, Head(data)), Tail(data))

\* calculate_crc32: CRC_32_ISO_HDLC (init 0xFFFFFFFF, reflected, xorout 0xFFFFFFFF).
calculate_crc32(data) ==
    LET w == Crc32Update(<<65535, 65535>>, data)
    IN  <<65535 - w[1], 65535 - w[2]>>


(***************************************************************************)
(* Types of the DFU engine.                                                *)
(***************************************************************************)
\* enum Command
ReadBootloaderInfo == 0
ReadProgramCrc == 3
BootloaderQuit == 5
WriteProgramMemory == 6

\* size_of::<InfoBlockV2>() of the packed struct: 1 + 2 + 20 + 18 + 66
InfoBlockSize == 107

UpdateModes == {"None", "Direct", "Link"}

Min(a, b) == IF a <= b THEN a ELSE b

Last(s) == s[Len(s)]

Range(s) == {s[i] : i \in DOMAIN s}

\* The firmware files of the model. "none" is filename: None.
HexNames == {"fw.hex", "bad.hex", "big.hex"}

DataRecord(offset, value) == [kind |-> "Data", offset |-> offset, value |-> value]
OtherRecord(kind) == [kind |-> kind, offset |-> 0, value |-> <<>>]

\* What the ihex reader yields for each file: Data records, other records
\* (end of file), or a record that fails to parse ("Err").
HexContent(name) ==
    CASE name = "fw.hex" ->
            <<DataRecord(0, <<1, 2>>), DataRecord(1, <<7>>),
              DataRecord(MaxFirmwareSize - 1, <<0>>), OtherRecord("EndOfFile")>>
      [] name = "bad.hex" -> <<DataRecord(0, <<1>>), OtherRecord("Err")>>
      [] name = "big.hex" -> <<DataRecord(MaxFirmwareSize - 1, <<1, 2>>)>>
      [] OTHER -> <<>>

\* The configurations a caller can build with DfuConfig's builder.
Configs ==
    [uri : {"", "dev"}, filename : {"none"} \cup HexNames,
     block_size : 0..MaxBlockSize, get_info : BOOLEAN, update : BOOLEAN,
     overwrite : BOOLEAN, verify : BOOLEAN, quit : BOOLEAN,
     upd_mode : UpdateModes]

validate_uri_only(cfg) ==
    IF cfg.uri = "" THEN "URI must be specified" ELSE "Ok"

\* DfuConfig::validate
validate(cfg) ==
    IF cfg.uri = "" THEN "URI must be specified"
    ELSE IF cfg.update /\ cfg.filename = "none"
         THEN "Firmware file must be specified for update"
         ELSE "Ok"

NoInfo == [valid |-> FALSE, version |-> 0, max_block_size |-> 0, uid |-> <<>>,
           firmware_address |-> 0, firmware_size |-> 0]

\* The device uids of the model ([u8; 16] in DeviceId, two bytes here): one
\* that occurs in the image of fw.hex and one that does not.
DeviceUids == {<<1, 7>>, <<7, 1>>}

\* validate_firmware: info.version >= 0x30
DeviceIdVersion == 48

\* The info blocks a device may report.
InfoBlocks ==
    [valid : {TRUE}, version : {DeviceIdVersion - 1, DeviceIdVersion},
     max_block_size : 0..MaxBlockSize, uid : DeviceUids,
     firmware_address : {134217728},
     firmware_size : {MaxFirmwareSize - 1, MaxFirmwareSize}]

NoCrc == <<-1, -1>>

\* The CRC a device may report for its program memory: that of the image, or
\* 0xDEADBEEF.
DeviceCrcs(fw) == {calculate_crc32(fw), <<57005, 48879>>}

Request(type, block_size, timeout, command, offset, size) ==
    [request_type |-> type, block_size |-> block_size, timeout |-> timeout,
     command |-> command, offset |-> offset, size |-> size]

\* fn max_firmware_size
max_firmware_size == MaxFirmwareSize

\* The loop of load_firmware over the records of the file.
RECURSIVE CopyRecords(_, _)
CopyRecords(fw, recs) ==
    IF recs = <<>> THEN [status |-> "Ok", firmware |-> fw]
    ELSE LET r == Head(recs) IN
         IF r.kind = "Err" THEN [status |-> "HexFileError", firmware |-> <<>>]
         ELSE IF r.kind = "Data"
              THEN IF r.offset + Len(r.value) > Len(fw)
                   THEN [status |-> "Panic", firmware |-> <<>>]
                   ELSE CopyRecords(
                            [i \in 1..Len(fw) |->
                                IF i > r.offset /\ i <= r.offset + Len(r.value)
                                THEN r.value[i - r.offset] ELSE fw[i]],
                            Tail(recs))
              ELSE CopyRecords(fw, Tail(recs))

\* load_firmware from the buffer on: vec![0xFF; max_firmware_size()], then the
\* loop over the records.
load_records(recs) == CopyRecords([i \in 1..max_firmware_size |-> 255], recs)

\* DfuStream::load_firmware
load_firmware(cfg) ==
    IF cfg.filename = "none"
    THEN [status |-> "NoFirmwareFile", firmware |-> <<>>]
    ELSE load_records(HexContent(cfg.filename))

\* DfuStream::verify_device_id: firmware.windows(uid.len()).any(|w| w == uid)
verify_device_id(fw, device_uid) ==
    IF \E i \in 1..(Len(fw) - Len(device_uid) + 1) :
          SubSeq(fw, i, i + Len(device_uid) - 1) = device_uid
    THEN "Ok" ELSE "InvalidDeviceId"

\* DfuStream::validate_firmware
validate_firmware(fw, inf, cfg) ==
    IF Len(fw) > inf.firmware_size THEN "FirmwareTooLarge"
    ELSE IF inf.version >= DeviceIdVersion /\ ~cfg.overwrite
         THEN verify_device_id(fw, inf.uid)
         ELSE "Ok"

(***************************************************************************)
(* The control flow of update() and process_firmware(): the position each  *)
(* stage hands over to.                                                    *)
(***************************************************************************)
\* update(): if upd_mode != None { auto_exit } ... Ok(())
AfterQuit(cfg) == IF cfg.upd_mode # "None" THEN "auto_exit" ELSE "done"

\* update(): if quit { quit_bootloader }
AfterInfoBlock(cfg) == IF cfg.quit THEN "quit" ELSE AfterQuit(cfg)

\* process_firmware(): if verify { verify_firmware }
AfterWrite(cfg) == IF cfg.verify THEN "verify" ELSE AfterInfoBlock(cfg)

ProcessFirmwareAlwaysWrites(cfg) == "write"

\* process_firmware(): if update { write_firmware }
process_firmware(cfg) == IF cfg.update THEN "write" ELSE AfterWrite(cfg)

\* update(): if update || verify { process_firmware }
AfterReadInfo(cfg) ==
    IF cfg.update \/ cfg.verify THEN process_firmware(cfg) ELSE AfterInfoBlock(cfg)

\* update(): if get_info || update || verify { read_bootloader_info ... }
AfterAutoEnter(cfg) ==
    IF cfg.get_info \/ cfg.update \/ cfg.verify THEN "read_info"
    ELSE AfterInfoBlock(cfg)

\* update(): if upd_mode != None { auto_enter }
UpdateEntry(cfg) == IF cfg.upd_mode # "None" THEN "auto_enter" ELSE AfterAutoEnter(cfg)

AfterProbeAlwaysReboots(detected, cfg) == "reboot"

\* auto_enter: if detect_bootloader().is_ok() { return Ok(()) }, else the
\* reboot command.
AfterProbe(detected, cfg) == IF detected THEN AfterAutoEnter(cfg) ELSE "reboot"

PropagateExceptVerify(err, cont) ==
    IF err = "VerificationFailed" THEN cont ELSE "failed"

\* The ? operator: an Err result returns from update() at once. cont is where
\* execution would go on had the call returned Ok.
Propagate(err, cont) == "failed"

\* What update() has returned when the engine is at position p.
Returned(p, err) ==
    IF err # "Ok" THEN err ELSE IF p = "done" THEN "Ok" ELSE "none"

CrcMismatchNever(firmware_crc, reported_crc) == FALSE

\* verify_firmware: if firmware_crc != device_crc
CrcMismatch(firmware_crc, reported_crc) == firmware_crc # reported_crc

SkipWriteInverted(current, new, overwrite) == current # new /\ ~overwrite

\* write_firmware: if current_crc == new_crc && !self.config.overwrite
SkipWrite(current, new, overwrite) == current = new /\ ~overwrite

\* write_firmware: let block_size = config.block_size.min(info.max_block_size)
BlockSize(cfg, inf) == Min(cfg.block_size, inf.max_block_size)

\* firmware.chunks(block_size): chunk i (from 0)
Chunk(fw, bs, i) == SubSeq(fw, i * bs + 1, Min((i + 1) * bs, Len(fw)))

\* write_firmware: let total_blocks = (len + block_size - 1) / block_size
TotalBlocks(len, bs) == (len + bs - 1) \div bs


(***************************************************************************)
(* The Application Protocol Layer: AplStream and its packet handlers.      *)
(* A handler takes the stream's fields st = [block_number, retries, tx,    *)
(* open] and a packet, and yields the fields after it and what it returned.*)
(***************************************************************************)
\* AplStream::new: max_retries: 3
max_retries == 3

\* enum AplRequestType
AplRequestTypes == {"None", "ReadRequest", "WriteRequest", "Data", "Ack", "Error"}

\* The packets given to process_message.
AplMessages(type) == [packet_type : {type}, block_number : 0..MaxPackets]

\* u16::MAX, the largest value of block_number
U16Max == 65535

\* self.block_number += 1 on a u16 without overflow checks (a release build):
\* it wraps. MaxPackets keeps the runs of SpecApl below the wrap.
NextBlock(n) == (n + 1) % 65536

\* self.block_number += 1; self.retries = 0; Ok(()). With overflow checks (a
\* debug build) the addition panics at u16::MAX.
Accept(st) ==
    IF st.overflow_checks /\ st.block_number = U16Max
    THEN [block_number |-> st.block_number, retries |-> st.retries, tx |-> st.tx,
          open |-> st.open, ret |-> "Panic"]
    ELSE [block_number |-> NextBlock(st.block_number), retries |-> 0, tx |-> st.tx,
          open |-> st.open, ret |-> "Ok"]

Outcome(st, ret) ==
    [block_number |-> st.block_number, retries |-> st.retries, tx |-> st.tx,
     open |-> st.open, ret |-> ret]

\* mpsc::Sender::send: queues the message, or fails when the receiver is gone.
ChannelSend(st, m) == IF st.open THEN [st EXCEPT !.tx = Append(@, m)] ELSE st

handle_data_unchecked(st, msg) ==
    IF ~st.open THEN Outcome(st, "SendError")
    ELSE Outcome([ChannelSend(st, [packet_type |-> "Ack",
                                   block_number |-> st.block_number])
                    EXCEPT !.block_number = NextBlock(@), !.retries = 0], "Ok")

\* AplStream::handle_data
handle_data(st, msg) ==
    IF msg.block_number # st.block_number THEN Outcome(st, "InvalidBlockNumber")
    ELSE IF ~st.open THEN Outcome(st, "SendError")
    ELSE Accept(ChannelSend(st, [packet_type |-> "Ack",
                                 block_number |-> st.block_number]))

handle_ack_keeps_retries(st, msg) ==
    IF msg.block_number # st.block_number THEN Outcome(st, "InvalidAck")
    ELSE Outcome([st EXCEPT !.block_number = NextBlock(@)], "Ok")

handle_ack_unchecked(st, msg) ==
    Outcome([st EXCEPT !.block_number = NextBlock(@), !.retries = 0], "Ok")

handle_ack_follows_packet(st, msg) ==
    Outcome([st EXCEPT !.block_number = NextBlock(msg.block_number), !.retries = 0],
            "Ok")

\* AplStream::handle_ack
handle_ack(st, msg) ==
    IF msg.block_number # st.block_number THEN Outcome(st, "InvalidAck")
    ELSE Accept(st)

handle_error_unbounded(st, msg) ==
    Outcome([st EXCEPT !.retries = @ + 1], "ProtocolError")

handle_error_one_more(st, msg) ==
    IF st.retries > max_retries THEN Outcome(st, "MaxRetries")
    ELSE Outcome([st EXCEPT !.retries = @ + 1], "ProtocolError")

\* AplStream::handle_error
handle_error(st, msg) ==
    IF st.retries >= max_retries THEN Outcome(st, "MaxRetries")
    ELSE Outcome([st EXCEPT !.retries = @ + 1], "ProtocolError")

process_message_acks_requests(st, msg) ==
    CASE msg.packet_type = "Data" -> handle_data(st, msg)
      [] msg.packet_type \in {"Ack", "WriteRequest"} -> handle_ack(st, msg)
      [] msg.packet_type = "Error" -> handle_error(st, msg)
      [] OTHER -> Outcome(st, "UnsupportedMessage")

\* AplStream::process_message
process_message(st, msg) ==
    CASE msg.packet_type = "Data" -> handle_data(st, msg)
      [] msg.packet_type = "Ack" -> handle_ack(st, msg)
      [] msg.packet_type = "Error" -> handle_error(st, msg)
      [] OTHER -> Outcome(st, "UnsupportedMessage")

(***************************************************************************)
(* The Link Protocol Layer: framing of a request.                          *)
(***************************************************************************)
\* const SYN: u8 = 0x55
SYN == 85

\* One bit of CRC_16_CCITT_FALSE: shift left, xor the polynomial 0x1021 when
\* the bit shifted out is set.
Crc16Shift(c) ==
    IF c >= 32768 THEN Xor((c * 2) % 65536, 4129) ELSE (c * 2) % 65536

\* The byte table of the crc crate for CRC_16_CCITT_FALSE (named
\* CRC_16_IBM_3740 there).
Crc16Table ==
    [b \in 0..255 |->
        Crc16Shift(Crc16Shift(Crc16Shift(Crc16Shift(
        Crc16Shift(Crc16Shift(Crc16Shift(Crc16Shift(b * 256))))))))]

\* One byte of the table-driven update: table[(crc >> 8) ^ byte] ^ (crc << 8)
Crc16Byte(c, byte) ==
    Xor(Crc16Table[Xor(c \div 256, byte)], (c % 256) * 256)

RECURSIVE Crc16Update(_, _)
Crc16Update(c, data) ==
    IF data = <<>> THEN c ELSE Crc16Update(Crc16Byte(c, Head(data)), Tail(data))

\* Crc::<u16>::new(&CRC_16_CCITT_FALSE) over data: init 0xFFFF, no xorout
crc16(data) == Crc16Update(65535, data)

\* put_u16_le, put_u32_le
LE16(x) == <<x % 256, (x \div 256) % 256>>
LE32(x) == <<x % 256, (x \div 256) % 256, (x \div 65536) % 256, (x \div 16777216) % 256>>

\* The longest prefix of data free of zero bytes, of at most 254 bytes.
RECURSIVE CobsRun(_)
CobsRun(data) ==
    IF data = <<>> \/ Head(data) = 0 THEN <<>>
    ELSE LET rest == CobsRun(Tail(data))
         IN  IF Len(rest) >= 253 THEN <<Head(data)>> \o SubSeq(rest, 1, 253)
             ELSE <<Head(data)>> \o rest

\* cobs::encode
RECURSIVE cobs_encode(_)
cobs_encode(data) ==
    IF data = <<>> THEN <<1>>
    ELSE LET run == CobsRun(data)
             after == SubSeq(data, Len(run) + 1, Len(data))
         IN  IF Len(run) = 254
             THEN <<255>> \o run \o (IF after = <<>> THEN <<>> ELSE cobs_encode(after))
             ELSE IF after = <<>> THEN <<Len(run) + 1>> \o run
             ELSE <<Len(run) + 1>> \o run \o cobs_encode(Tail(after))

\* cobs::decode: the decoded bytes, or <<-1>> for a malformed body.
RECURSIVE cobs_decode(_)
cobs_decode(body) ==
    IF body = <<>> THEN <<>>
    ELSE LET code == Head(body) IN
         IF code = 0 \/ code - 1 > Len(body) - 1 THEN <<-1>>
         ELSE LET block == SubSeq(body, 2, code)
                  after == SubSeq(body, code + 1, Len(body))
                  tail == cobs_decode(after)
              IN  IF tail = <<-1>> THEN <<-1>>
                  ELSE IF code < 255 /\ after # <<>> THEN block \o <<0>> \o tail
                  ELSE block \o tail

\* AplRequestType as u8
TypeCode(t) ==
    CASE t = "None" -> 0 [] t = "ReadRequest" -> 1 [] t = "WriteRequest" -> 2
      [] t = "Data" -> 3 [] t = "Ack" -> 4 [] t = "Error" -> 5

\* AplMessage::to_bytes
apl_to_bytes(msg) ==
    <<TypeCode(msg.packet_type)>> \o LE16(msg.block_number) \o msg.data

\* The frame of a payload: SYN, COBS(payload || CRC16 little-endian), 0.
Frame(payload) == <<SYN>> \o cobs_encode(payload \o LE16(crc16(payload))) \o <<0>>

\* AplStream::create_request: the serialized request packet
create_request(request_type, block_size, timeout, command, offset, size) ==
    <<TypeCode(request_type)>> \o LE16(block_size % 65536) \o LE16(timeout % 65536)
    \o <<command % 256>> \o LE32(offset) \o LE32(size)

\* LplStream::send_request: the bytes written to the stream. The packet is an
\* AplMessage of the request type with block_number 0 and no data.
send_request(request_type, block_size, timeout, command, offset, size) ==
    Frame(apl_to_bytes([packet_type |-> request_type, block_number |-> 0,
                        data |-> <<>>]))

\* What a frame carries: the body between SYN and the delimiter, COBS-decoded,
\* without its two CRC bytes. <<-1>> when it does not decode.
FramePayload(frame) ==
    LET decoded == cobs_decode(SubSeq(frame, 2, Len(frame) - 1))
    IN  IF decoded = <<-1>> \/ Len(decoded) < 2 THEN <<-1>>
        ELSE SubSeq(decoded, 1, Len(decoded) - 2)

(***************************************************************************)
(* The DFU engine: DfuStream::new, then one call of update().              *)
(***************************************************************************)
InitDfu ==
    /\ config \in Configs
    /\ pc = "new"
    /\ result = "none"
    /\ stages = <<>>
    /\ requests = <<>>
    /\ pending = <<>>
    /\ info = NoInfo
    /\ firmware = <<>>
    /\ current_crc = NoCrc
    /\ device_crc = NoCrc
    /\ block_i = 0
    /\ reboots = 0
    /\ wire = <<>>
    /\ probes = <<>>

\* AplStream::new, as DfuStream::new calls it: the receiving half rx2 of the
\* channel behind AplStream.tx is a local of new() and is dropped on return.
InitApl ==
    /\ block_number = 0
    /\ retries = 0
    /\ apl_tx = <<>>
    /\ rx2_open = FALSE
    /\ apl_result = "none"
    /\ last_msg = [packet_type |-> "None", block_number |-> 0, expected |-> 0,
                   retries_before |-> 0, tx_before |-> 0]
    /\ prev_type = "None"
    /\ handled = 0

\* The LPL stream as DfuStream::new builds it: the sender into LplStream.rx
\* that LplStream::new returns is discarded, and nothing has arrived.
IdleLpl ==
    /\ tx1_open = FALSE
    /\ arrived = <<>>
    /\ lpl_rx = <<>>
    /\ decodings = <<>>
    /\ delivered = <<>>
    /\ lpl_running = TRUE

\* DfuConfig::default's gap_filling, and no file loaded.
IdleLoad ==
    /\ hex = <<>>
    /\ gap_filling = 255
    /\ load_result = [status |-> "none", firmware |-> <<>>]

Init == InitDfu /\ InitApl /\ IdleLpl /\ IdleLoad

\* A stage ends: to position p with Ok, or with the error err.
Goto(p, err) ==
    /\ pc' = p
    /\ result' = Returned(p, err)

\* A call of lpl.send_request with the arguments of req: the frame is written.
Send(req) ==
    /\ requests' = Append(requests, req)
    /\ wire' = Append(wire, send_request(req.request_type, req.block_size,
                                          req.timeout, req.command, req.offset,
                                          req.size))

\* DfuStream::new: config.validate()?
DfuNew ==
    /\ pc = "new"
    /\ IF validate(config) = "Ok"
       THEN pc' = "idle" /\ result' = "none"
       ELSE pc' = "config_error" /\ result' = "Configuration"
    /\ UNCHANGED <<config, stages, requests, wire, pending, info, firmware,
                   current_crc, device_crc, block_i, reboots>>
    /\ UNCHANGED probes
    /\ UNCHANGED <<apl_vars, lpl_vars, load_vars>>

\* update() is called and reaches its first selected stage.
Update ==
    /\ pc = "idle"
    /\ Goto(UpdateEntry(config), "Ok")
    /\ UNCHANGED <<config, stages, requests, wire, pending, info, firmware,
                   current_crc, device_crc, block_i, reboots>>
    /\ UNCHANGED probes
    /\ UNCHANGED <<apl_vars, lpl_vars, load_vars>>

\* detect_bootloader: a ReadBootloaderInfo probe, answered or not.
ProbeRequest == Request("ReadRequest", InfoBlockSize, 0, ReadBootloaderInfo, 0, InfoBlockSize)

\* auto_enter: set_speed (a no-op), then the first detect_bootloader.
AutoEnter ==
    /\ pc = "auto_enter"
    /\ stages' = Append(stages, "auto_enter")
    /\ Send(ProbeRequest)
    /\ \E detected \in BOOLEAN :
          /\ probes' = Append(probes, detected)
          /\ Goto(AfterProbe(detected, config), "Ok")
    /\ UNCHANGED <<config, pending, info, firmware, current_crc, device_crc,
                   block_i, reboots>>
    /\ UNCHANGED <<apl_vars, lpl_vars, load_vars>>

\* auto_enter: send_reboot_command()?, then sleep 1 s.
SendRebootCommand ==
    /\ pc = "reboot"
    /\ reboots' = reboots + 1
    /\ \E sent \in BOOLEAN :
          IF sent THEN Goto("reprobe", "Ok")
          ELSE Goto(Propagate("Io", "reprobe"), "Io")
    /\ UNCHANGED <<config, stages, requests, wire, pending, info, firmware,
                   current_crc, device_crc, block_i>>
    /\ UNCHANGED probes
    /\ UNCHANGED <<apl_vars, lpl_vars, load_vars>>

\* auto_enter: the second detect_bootloader()?
AutoEnterReprobe ==
    /\ pc = "reprobe"
    /\ Send(ProbeRequest)
    /\ \E detected \in BOOLEAN :
          /\ probes' = Append(probes, detected)
          /\ IF detected THEN Goto(AfterAutoEnter(config), "Ok")
             ELSE Goto(Propagate("BootloaderNotDetected", AfterAutoEnter(config)),
                       "BootloaderNotDetected")
    /\ UNCHANGED <<config, stages, pending, info, firmware, current_crc,
                   device_crc, block_i, reboots>>
    /\ UNCHANGED <<apl_vars, lpl_vars, load_vars>>

\* read_bootloader_info()?: a ReadBootloaderInfo request answered by a Data
\* packet carrying the info block.
ReadBootloaderInfoStage ==
    /\ pc = "read_info"
    /\ stages' = Append(stages, "read_info")
    /\ Send(Request("ReadRequest", InfoBlockSize, 0, ReadBootloaderInfo, 0, InfoBlockSize))
    /\ \/ \E blk \in InfoBlocks :
             /\ info' = blk
             /\ Goto(AfterReadInfo(config), "Ok")
       \/ /\ info' = info
          /\ Goto(Propagate("Io", AfterReadInfo(config)), "Io")
    /\ UNCHANGED <<config, pending, firmware, current_crc, device_crc, block_i,
                   reboots>>
    /\ UNCHANGED probes
    /\ UNCHANGED <<apl_vars, lpl_vars, load_vars>>

\* read_firmware_crc: stream.read_exact(&mut crc).await with no byte arriving
\* and the stream left open. The await has no deadline; it does not complete.
AwaitCrc ==
    /\ pc' = "awaiting_crc"
    /\ result' = result

\* read_firmware_crc's request
CrcRequest(inf) ==
    Request("ReadRequest", 4, 0, ReadProgramCrc, inf.firmware_address,
            inf.firmware_size)

\* write_firmware up to its first write_block: load_firmware()?,
\* read_firmware_crc()?, the comparison and the block size.
WriteFirmware ==
    /\ pc = "write"
    /\ stages' = Append(stages, "write")
    /\ block_i' = 0
    /\ LET loaded == load_firmware(config) IN
       IF loaded.status = "Panic"
       THEN /\ pc' = "panic" /\ result' = "none"
            /\ UNCHANGED <<requests, wire, firmware, current_crc>>
       ELSE IF loaded.status # "Ok"
       THEN /\ Goto(Propagate(loaded.status, AfterWrite(config)), loaded.status)
            /\ UNCHANGED <<requests, wire, firmware, current_crc>>
       ELSE /\ firmware' = loaded.firmware
            /\ Send(CrcRequest(info))
            /\ \/ /\ current_crc' = current_crc
                  /\ Goto(Propagate("Io", AfterWrite(config)), "Io")
               \/ /\ current_crc' = current_crc
                  /\ AwaitCrc
               \/ \E crc \in DeviceCrcs(loaded.firmware) :
                     /\ current_crc' = crc
                     /\ IF SkipWrite(crc, calculate_crc32(loaded.firmware),
                                     config.overwrite)
                        THEN Goto(AfterWrite(config), "Ok")
                        ELSE IF BlockSize(config, info) = 0
                             THEN pc' = "panic" /\ result' = "none"
                             ELSE Goto("write_blocks", "Ok")
    /\ UNCHANGED <<config, pending, info, device_crc, reboots>>
    /\ UNCHANGED probes
    /\ UNCHANGED <<apl_vars, lpl_vars, load_vars>>

\* write_block's request for a chunk
WriteRequest(chunk, address) ==
    Request("WriteRequest", Len(chunk), 0, WriteProgramMemory, address, Len(chunk))

\* One turn of write_firmware's loop: write_block(chunk, fw_addr + i * block_size)?
\* write_block returns as soon as the frame is written.
WriteBlock ==
    /\ pc = "write_blocks"
    /\ LET bs == BlockSize(config, info)
           chunk == Chunk(firmware, bs, block_i)
           req == WriteRequest(chunk, info.firmware_address + block_i * bs)
       IN  /\ Send(req)
           /\ \/ /\ pending' = Append(pending, req)
                 /\ block_i' = block_i + 1
                 /\ IF (block_i + 1) * bs >= Len(firmware)
                    THEN Goto(AfterWrite(config), "Ok")
                    ELSE Goto("write_blocks", "Ok")
              \/ /\ UNCHANGED <<pending, block_i>>
                 /\ Goto(Propagate("Io", AfterWrite(config)), "Io")
    /\ UNCHANGED <<config, stages, info, firmware, current_crc, device_crc,
                   reboots>>
    /\ UNCHANGED probes
    /\ UNCHANGED <<apl_vars, lpl_vars, load_vars>>

\* verify_firmware: load_firmware()?, read_firmware_crc()?, the comparison.
VerifyFirmware ==
    /\ pc = "verify"
    /\ stages' = Append(stages, "verify")
    /\ LET loaded == load_firmware(config) IN
       IF loaded.status = "Panic"
       THEN /\ pc' = "panic" /\ result' = "none"
            /\ UNCHANGED <<requests, wire, firmware, device_crc>>
       ELSE IF loaded.status # "Ok"
       THEN /\ Goto(Propagate(loaded.status, AfterInfoBlock(config)), loaded.status)
            /\ UNCHANGED <<requests, wire, firmware, device_crc>>
       ELSE /\ firmware' = loaded.firmware
            /\ Send(CrcRequest(info))
            /\ \/ /\ device_crc' = device_crc
                  /\ Goto(Propagate("Io", AfterInfoBlock(config)), "Io")
               \/ /\ device_crc' = device_crc
                  /\ AwaitCrc
               \/ \E crc \in DeviceCrcs(loaded.firmware) :
                     /\ device_crc' = crc
                     /\ IF CrcMismatch(calculate_crc32(loaded.firmware), crc)
                        THEN Goto(Propagate("VerificationFailed", AfterInfoBlock(config)),
                                  "VerificationFailed")
                        ELSE Goto(AfterInfoBlock(config), "Ok")
    /\ UNCHANGED <<config, pending, info, current_crc, block_i, reboots>>
    /\ UNCHANGED probes
    /\ UNCHANGED <<apl_vars, lpl_vars, load_vars>>

\* quit_bootloader: one BootloaderQuit write request, no response awaited.
QuitBootloader ==
    /\ pc = "quit"
    /\ stages' = Append(stages, "quit")
    /\ LET req == Request("WriteRequest", 0, 0, BootloaderQuit, 0, 0) IN
       /\ Send(req)
       /\ \/ /\ pending' = Append(pending, req)
             /\ Goto(AfterQuit(config), "Ok")
          \/ /\ pending' = pending
             /\ Goto(Propagate("Io", AfterQuit(config)), "Io")
    /\ UNCHANGED <<config, info, firmware, current_crc, device_crc, block_i,
                   reboots>>
    /\ UNCHANGED probes
    /\ UNCHANGED <<apl_vars, lpl_vars, load_vars>>

\* auto_exit: set_speed, a no-op that returns Ok.
AutoExit ==
    /\ pc = "auto_exit"
    /\ stages' = Append(stages, "auto_exit")
    /\ Goto("done", "Ok")
    /\ UNCHANGED <<config, requests, wire, pending, info, firmware, current_crc,
                   device_crc, block_i, reboots>>
    /\ UNCHANGED probes
    /\ UNCHANGED <<apl_vars, lpl_vars, load_vars>>

\* One call of process_message on the stream, with the packet msg, in a build
\* with or without overflow checks. A panic ends the task that owns the stream.
Receive(msg) ==
    /\ handled < MaxPackets
    /\ apl_result # "Panic"
    /\ \E overflow_checks \in BOOLEAN :
       LET st == [block_number |-> block_number, retries |-> retries,
                  tx |-> apl_tx, open |-> rx2_open,
                  overflow_checks |-> overflow_checks]
           out == process_message(st, msg)
       IN  /\ block_number' = out.block_number
           /\ retries' = out.retries
           /\ apl_tx' = out.tx
           /\ rx2_open' = out.open
           /\ apl_result' = out.ret
           /\ last_msg' = [packet_type |-> msg.packet_type,
                           block_number |-> msg.block_number,
                           expected |-> block_number,
                           retries_before |-> retries,
                           tx_before |-> Len(apl_tx)]
    /\ prev_type' = IF handled = 0 THEN "None" ELSE last_msg.packet_type
    /\ handled' = handled + 1
    /\ UNCHANGED <<dfu_vars, lpl_vars, load_vars>>

ReceiveData == \E msg \in AplMessages("Data") : Receive(msg)

ReceiveAck == \E msg \in AplMessages("Ack") : Receive(msg)

ReceiveError == \E msg \in AplMessages("Error") : Receive(msg)

ReceiveOther ==
    \E type \in {"None", "ReadRequest", "WriteRequest"} :
        \E msg \in AplMessages(type) : Receive(msg)

NextDfu ==
    \/ DfuNew
    \/ Update
    \/ AutoEnter
    \/ SendRebootCommand
    \/ AutoEnterReprobe
    \/ ReadBootloaderInfoStage
    \/ WriteFirmware
    \/ WriteBlock
    \/ VerifyFirmware
    \/ QuitBootloader
    \/ AutoExit

Next == NextDfu

Spec == Init /\ [][Next]_vars

\* The APL alone: an AplStream as DfuStream::new builds it, given packets.
IdleDfu ==
    /\ config = [uri |-> "dev", filename |-> "none", block_size |-> 0,
                 get_info |-> FALSE, update |-> FALSE, overwrite |-> FALSE,
                 verify |-> FALSE, quit |-> FALSE, upd_mode |-> "None"]
    /\ pc = "idle"
    /\ result = "none"
    /\ stages = <<>>
    /\ requests = <<>>
    /\ pending = <<>>
    /\ info = NoInfo
    /\ firmware = <<>>
    /\ current_crc = NoCrc
    /\ device_crc = NoCrc
    /\ block_i = 0
    /\ reboots = 0
    /\ wire = <<>>
    /\ probes = <<>>

InitAplOnly == InitApl /\ IdleDfu /\ IdleLpl /\ IdleLoad

NextApl ==
    \/ ReceiveData
    \/ ReceiveAck
    \/ ReceiveError
    \/ ReceiveOther

SpecApl == InitAplOnly /\ [][NextApl]_vars

\* fn max_firmware_size: 1024 * 1024
MaxFirmwareBytes == 1048576

\* write_firmware: total_blocks for the image load_firmware returns
SessionBlocks(block_size) == (MaxFirmwareBytes + block_size - 1) \div block_size

\* The APL late in a session: an AplStream that has accepted u16::MAX - 1
\* exchanges, fewer than the blocks of a write with block size 1.
InitWrap ==
    /\ IdleDfu
    /\ IdleLpl
    /\ IdleLoad
    /\ block_number \in {n \in {U16Max - 1} : n < SessionBlocks(1)}
    /\ retries = 0
    /\ apl_tx = <<>>
    /\ rx2_open = FALSE
    /\ apl_result = "none"
    /\ last_msg = [packet_type |-> "None", block_number |-> 0, expected |-> 0,
                   retries_before |-> 0, tx_before |-> 0]
    /\ prev_type = "None"
    /\ handled = 0

\* The packets given to process_message late in a session.
LateMessages(type) ==
    [packet_type : {type}, block_number : {U16Max - 1, U16Max, 0, 1}]

LateData == \E msg \in LateMessages("Data") : Receive(msg)

LateAck == \E msg \in LateMessages("Ack") : Receive(msg)

LateError == \E msg \in LateMessages("Error") : Receive(msg)

NextWrap ==
    \/ LateData
    \/ LateAck
    \/ LateError

SpecWrap == InitWrap /\ [][NextWrap]_vars

(***************************************************************************)
(* Properties of the DFU engine (checked under Spec).                      *)
(***************************************************************************)
StageOrder == <<"auto_enter", "read_info", "write", "verify", "quit", "auto_exit">>

StageIndex(s) == CHOOSE i \in DOMAIN StageOrder : StageOrder[i] = s

\* The selector of each stage in update() and process_firmware().
Selected(cfg, s) ==
    CASE s = "auto_enter" -> cfg.upd_mode # "None"
      [] s = "read_info" -> cfg.get_info \/ cfg.update \/ cfg.verify
      [] s = "write" -> cfg.update
      [] s = "verify" -> cfg.verify
      [] s = "quit" -> cfg.quit
      [] s = "auto_exit" -> cfg.upd_mode # "None"

IsWriteRequest(r) == r.command = WriteProgramMemory

WriteRequests == SelectSeq(requests, IsWriteRequest)

IsError(r) == r \notin {"none", "Ok"}

\* C1: the stages of update() run in the order auto_enter, read info, write,
\* verify, quit, auto_exit, each at most once and only when selected; a run
\* that completes has run every selected stage; and no ReadProgramCrc or
\* WriteProgramMemory request is issued before the info block has been read.
C1_StageOrder ==
    /\ \A i, j \in DOMAIN stages :
          i < j => StageIndex(stages[i]) < StageIndex(stages[j])
    /\ \A i \in DOMAIN stages : Selected(config, stages[i])
    /\ pc = "done" =>
          \A s \in Range(StageOrder) : Selected(config, s) => s \in Range(stages)
    /\ \A k \in DOMAIN requests :
          requests[k].command \in {ReadProgramCrc, WriteProgramMemory}
             => info.valid /\ "read_info" \in Range(stages)

\* C1 witness: a completed run of all six stages that wrote blocks.
C1_Witness ==
    /\ pc = "done"
    /\ stages = StageOrder
    /\ Len(WriteRequests) > 1

\* C2: once a stage has failed, update() has returned that stage's error and
\* is at no later stage; no BootloaderQuit request has been sent, in
\* particular after VerificationFailed.
C2_FailureStops ==
    IsError(result) =>
       /\ pc \in {"failed", "config_error"}
       /\ pc = "config_error" => stages = <<>> /\ requests = <<>>
       /\ (stages # <<>> /\ Last(stages) # "quit") =>
             \A k \in DOMAIN requests : requests[k].command # BootloaderQuit
       /\ result = "VerificationFailed" =>
             /\ Last(stages) = "verify"
             /\ device_crc # calculate_crc32(firmware)
       /\ result = "BootloaderNotDetected" => stages = <<"auto_enter">>
       /\ result \in {"NoFirmwareFile", "HexFileError"} =>
             Last(stages) \in {"write", "verify"}

\* C2 witness: verification failed after a write, with quit and auto_exit
\* selected and not run.
C2_Witness ==
    /\ result = "VerificationFailed"
    /\ pc = "failed"
    /\ config.quit
    /\ config.upd_mode # "None"
    /\ Len(WriteRequests) > 0

\* C8: at most one request is outstanding at any time: no request is written
\* while an earlier one has had no response received.
C8_OneOutstanding == Len(pending) <= 1

\* C9: in write_firmware, with overwrite unset and the device CRC equal to
\* the image CRC, no WriteProgramMemory request is issued and the stage
\* returns success.
C9_SkipWhenUpToDate ==
    ( /\ "write" \in Range(stages)
      /\ current_crc # NoCrc
      /\ ~config.overwrite
      /\ current_crc = calculate_crc32(firmware) )
    => /\ WriteRequests = <<>>
       /\ pc \notin {"write_blocks", "panic"}
       /\ ~(pc = "failed" /\ Last(stages) = "write")

\* C9 witness: an update that skipped the write and completed.
C9_Witness ==
    /\ pc = "done"
    /\ config.update
    /\ ~config.overwrite
    /\ current_crc = calculate_crc32(firmware)
    /\ WriteRequests = <<>>

\* C10: a write that is not skipped issues ceil(len / blk) WriteProgramMemory
\* requests, the i-th with address fw_addr + i * blk and length exactly blk,
\* the last block included.
C10_WholeBlocks ==
    LET blk == BlockSize(config, info) IN
    /\ \A k \in DOMAIN WriteRequests :
          /\ WriteRequests[k].offset = info.firmware_address + (k - 1) * blk
          /\ WriteRequests[k].size = blk
          /\ WriteRequests[k].block_size = blk
    /\ ( /\ "write" \in Range(stages)
         /\ current_crc # NoCrc
         /\ ~SkipWrite(current_crc, calculate_crc32(firmware), config.overwrite)
         /\ pc \in {"verify", "quit", "auto_exit", "done"} )
       => Len(WriteRequests) * blk >= Len(firmware)
          /\ (Len(WriteRequests) - 1) * blk < Len(firmware)

(***************************************************************************)
(* Properties of the APL handlers (checked under SpecApl).                 *)
(***************************************************************************)
\* The last packet handled carried the expected block number.
LastMatched(type) ==
    /\ handled > 0
    /\ last_msg.packet_type = type
    /\ last_msg.block_number = last_msg.expected

LastMismatched(type) ==
    /\ handled > 0
    /\ last_msg.packet_type = type
    /\ last_msg.block_number # last_msg.expected

\* C3: a Data packet carrying the expected block number is answered by an
\* Ack with that number, advances the counter by 1, resets retries and
\* returns success, on a stream built by AplStream::new.
C3_DataAccepted ==
    LastMatched("Data") =>
       /\ apl_result = "Ok"
       /\ block_number = last_msg.expected + 1
       /\ retries = 0
       /\ Len(apl_tx) = last_msg.tx_before + 1
       /\ Last(apl_tx) = [packet_type |-> "Ack", block_number |-> last_msg.expected]

C5_MismatchRejected ==
    /\ LastMismatched("Data") => apl_result = "InvalidBlockNumber"
    /\ LastMismatched("Ack") => apl_result = "InvalidAck"
    /\ (LastMismatched("Data") \/ LastMismatched("Ack")) =>
          /\ block_number = last_msg.expected
          /\ retries = last_msg.retries_before
          /\ Len(apl_tx) = last_msg.tx_before

\* C5 witness: a mismatching Ack handled right after a Data packet, with
\* retries pending and the counter past 0.
C5_Witness ==
    /\ LastMismatched("Ack")
    /\ prev_type = "Data"
    /\ last_msg.retries_before >= 1
    /\ last_msg.expected >= 1

\* C6 as stated: every Error packet increments retries, and the session
\* fails with MaxRetries exactly when the incremented value exceeds 3.
C6_ErrorAlwaysIncrements ==
    (handled > 0 /\ last_msg.packet_type = "Error") =>
       /\ retries = last_msg.retries_before + 1
       /\ apl_result = "MaxRetries" <=> retries > max_retries
       /\ apl_result \in {"MaxRetries", "ProtocolError"}

\* C6 amended: an Error packet received with retries < 3 increments retries
\* and returns a retryable error; one received with retries = 3 fails with
\* MaxRetries and leaves retries at 3. The counter is untouched either way.
C6_ErrorRetryBudget ==
    (handled > 0 /\ last_msg.packet_type = "Error") =>
       /\ IF last_msg.retries_before < max_retries
          THEN retries = last_msg.retries_before + 1 /\ apl_result = "ProtocolError"
          ELSE retries = last_msg.retries_before /\ apl_result = "MaxRetries"
       /\ apl_result = "MaxRetries" <=> last_msg.retries_before + 1 > max_retries
       /\ block_number = last_msg.expected

\* C6 witness: the fourth consecutive Error packet, fatal.
C6_Witness ==
    /\ handled > 0
    /\ last_msg.packet_type = "Error"
    /\ prev_type = "Error"
    /\ last_msg.retries_before = max_retries
    /\ apl_result = "MaxRetries"

\* A step of the counter: unchanged, or up by one on an accepted Data or Ack
\* that carried the expected number.
C7_Step ==
    \/ block_number' = block_number
    \/ /\ block_number' = block_number + 1
       /\ last_msg'.packet_type \in {"Data", "Ack"}
       /\ last_msg'.block_number = block_number
       /\ apl_result' = "Ok"

lpl_from_bytes(data) ==
    IF data = <<>>
    THEN [status |-> "InvalidData", syn |-> FALSE, payload |-> <<>>, crc |-> 0,
          wire_bytes |-> data]
    ELSE IF Len(data) < 3
    THEN [status |-> "Panic", syn |-> FALSE, payload |-> <<>>, crc |-> 0,
          wire_bytes |-> data]
    ELSE [status |-> "Ok", syn |-> (data[1] = SYN),
          payload |-> SubSeq(data, 2, Len(data) - 2),
          crc |-> data[Len(data) - 1] + (256 * data[Len(data)]),
          wire_bytes |-> data]

\* impl TryFrom<u8> for AplRequestType
TypeName(code) ==
    CASE code = 0 -> "None" [] code = 1 -> "ReadRequest" [] code = 2 -> "WriteRequest"
      [] code = 3 -> "Data" [] code = 4 -> "Ack" [] code = 5 -> "Error"
      [] OTHER -> "Invalid"

NoAplMessage == [packet_type |-> "None", block_number |-> 0, data |-> <<>>]

\* AplMessage::from_bytes
apl_from_bytes(data) ==
    IF Len(data) < 3 THEN [status |-> "InvalidData", data |-> data, msg |-> NoAplMessage]
    ELSE IF TypeName(data[1]) = "Invalid"
    THEN [status |-> "InvalidData", data |-> data, msg |-> NoAplMessage]
    ELSE [status |-> "Ok", data |-> data,
          msg |-> [packet_type |-> TypeName(data[1]),
                   block_number |-> data[2] + (256 * data[3]),
                   data |-> SubSeq(data, 4, Len(data))]]

\* LplStream::decode_message: the result, with the bytes whose CRC verified.
decode_message(msg) ==
    LET d == cobs_decode(msg.payload) IN
    IF d = <<-1>> THEN [status |-> "InvalidData", data |-> <<>>, msg |-> NoAplMessage]
    ELSE IF Len(d) < 2
    THEN [status |-> "InvalidData", data |-> <<>>, msg |-> NoAplMessage]
    ELSE LET data == SubSeq(d, 1, Len(d) - 2)
             received_crc == d[Len(d) - 1] + (256 * d[Len(d)])
         IN  IF crc16(data) # received_crc
             THEN [status |-> "InvalidData", data |-> <<>>, msg |-> NoAplMessage]
             ELSE apl_from_bytes(data)

\* The payloads framed by the sender of the model: APL messages without and
\* with data, a payload with an invalid type code, and the empty payload.
Payloads == {<<4, 0, 0>>, <<3, 1, 0, 7>>, <<5, 2, 0>>, <<9, 0, 0>>, <<>>}

\* A frame whose CRC bytes do not match its payload.
BadCrcFrame(p) ==
    <<SYN>> \o cobs_encode(p \o LE16((crc16(p) + 1) % 65536)) \o <<0>>

\* A frame whose body decodes to a single byte.
ShortFrame == <<SYN, 2, 7, 0>>

\* The frames that may arrive on the transport.
WireFrames ==
    {Frame(p) : p \in Payloads} \cup {BadCrcFrame(p) : p \in Payloads}
    \cup {ShortFrame}

\* The LPL stream of LplStream::new: its caller keeps the sender into rx and
\* feeds it, or discards it as DfuStream::new does.
InitLpl ==
    /\ tx1_open \in BOOLEAN
    /\ arrived = <<>>
    /\ lpl_rx = <<>>
    /\ decodings = <<>>
    /\ delivered = <<>>
    /\ lpl_running = TRUE

\* A frame arrives on the transport. The holder of the sender passes it
\* through LplMessage::from_bytes and queues the message on LplStream.rx.
FrameArrives ==
    /\ Len(arrived) < MaxFrames
    /\ \E frame \in WireFrames :
          /\ arrived' = Append(arrived, frame)
          /\ LET m == lpl_from_bytes(frame) IN
             lpl_rx' = IF tx1_open /\ m.status = "Ok" THEN Append(lpl_rx, m)
                       ELSE lpl_rx
    /\ UNCHANGED <<tx1_open, decodings, delivered, lpl_running>>
    /\ UNCHANGED <<dfu_vars, apl_vars, load_vars>>

\* One turn of run()'s loop: recv a message, decode it, forward the AplMessage
\* on apl_tx (whose receiver AplStream.rx is alive) or log the error.
LplRun ==
    /\ lpl_running
    /\ lpl_rx # <<>>
    /\ LET r == decode_message(Head(lpl_rx)) IN
       /\ decodings' = Append(decodings, [wire_bytes |-> Head(lpl_rx).wire_bytes,
                                        status |-> r.status, data |-> r.data])
       /\ delivered' = IF r.status = "Ok" THEN Append(delivered, r.msg)
                       ELSE delivered
    /\ lpl_rx' = Tail(lpl_rx)
    /\ UNCHANGED <<tx1_open, arrived, lpl_running>>
    /\ UNCHANGED <<dfu_vars, apl_vars, load_vars>>

\* run(): recv() returns None once every sender is gone and the queue is
\* empty; the loop ends.
LplRunEnds ==
    /\ lpl_running
    /\ lpl_rx = <<>>
    /\ ~tx1_open
    /\ lpl_running' = FALSE
    /\ UNCHANGED <<tx1_open, arrived, lpl_rx, decodings, delivered>>
    /\ UNCHANGED <<dfu_vars, apl_vars, load_vars>>

InitLplOnly == InitLpl /\ InitApl /\ IdleDfu /\ IdleLoad

NextLpl ==
    \/ FrameArrives
    \/ LplRun
    \/ LplRunEnds

SpecLpl == InitLplOnly /\ [][NextLpl]_vars

(***************************************************************************)
(* load_firmware on the records of a HEX file.                             *)
(***************************************************************************)
\* The records of the HEX files of SpecLoad.
HexRecords ==
    {DataRecord(offset, value) :
        offset \in 0..(max_firmware_size - 1), value \in {<<1>>, <<2, 3>>}}
    \cup {OtherRecord("EndOfFile"), OtherRecord("Err")}

RECURSIVE HexFiles(_)
HexFiles(n) ==
    IF n = 0 THEN {<<>>}
    ELSE HexFiles(n - 1)
         \cup {Append(f, r) : f \in {g \in HexFiles(n - 1) : Len(g) = n - 1},
                              r \in HexRecords}

\* The values of DfuConfig.gap_filling of the model: the default and others.
GapFillings == {0, 170, 255}

InitLoad ==
    /\ hex \in HexFiles(MaxRecords)
    /\ gap_filling \in GapFillings
    /\ load_result = [status |-> "none", firmware |-> <<>>]

\* load_firmware, from the buffer on, for the records of the file.
LoadFirmware ==
    /\ load_result.status = "none"
    /\ load_result' = load_records(hex)
    /\ UNCHANGED <<hex, gap_filling>>
    /\ UNCHANGED <<dfu_vars, apl_vars, lpl_vars>>

InitLoadOnly == InitLoad /\ InitApl /\ IdleDfu /\ IdleLpl

NextLoad == LoadFirmware

SpecLoad == InitLoadOnly /\ [][NextLoad]_vars

(***************************************************************************)
(* Properties of the frames on the wire (checked under Spec).              *)
(***************************************************************************)
\* The length of the packet create_request serializes.
RequestPacketLen == 14

\* The block size a frame carries: the block_size field of a request packet
\* in create_request's layout, -1 when the frame holds no request packet.
WireBlockSize(frame) ==
    LET p == FramePayload(frame)
    IN  IF Len(p) # RequestPacketLen THEN -1 ELSE p[2] + (256 * p[3])

\* The data bytes a frame carries: what AplMessage::from_bytes takes as data,
\* the payload after packet type and block number.
FrameData(frame) ==
    LET p == FramePayload(frame)
    IN  IF Len(p) <= 3 THEN <<>> ELSE SubSeq(p, 4, Len(p))

\* The data bytes carried by the first k frames that are WriteProgramMemory
\* requests, in the order written.
RECURSIVE WrittenBytes(_)
WrittenBytes(k) ==
    IF k = 0 THEN <<>>
    ELSE WrittenBytes(k - 1)
         \o (IF IsWriteRequest(requests[k]) THEN FrameData(wire[k]) ELSE <<>>)

\* The write stage has returned success without skipping.
WriteStageWrote ==
    /\ "write" \in Range(stages)
    /\ current_crc # NoCrc
    /\ ~SkipWrite(current_crc, calculate_crc32(firmware), config.overwrite)
    /\ pc \notin {"write", "write_blocks", "panic"}
    /\ ~(pc = "failed" /\ Last(stages) = "write")

\* C11: the block size placed on the wire in each WriteProgramMemory request
\* equals min(config.block_size, info.max_block_size).
C11_ClampedOnWire ==
    \A k \in DOMAIN wire :
       IsWriteRequest(requests[k])
          => WireBlockSize(wire[k]) = Min(config.block_size, info.max_block_size)

\* C12: a write stage that returned success without skipping has transmitted
\* every byte of the loaded image, block by block in ascending order, each
\* block's bytes in the frames of its WriteProgramMemory request.
C12_ImageTransmitted ==
    WriteStageWrote => WrittenBytes(Len(wire)) = firmware

\* C13: every request frame written encodes the type, command, offset and
\* length the caller passed: its payload is the packet create_request
\* serializes from them.
C13_FrameEncodesRequest ==
    \A k \in DOMAIN wire :
       FramePayload(wire[k]) =
          create_request(requests[k].request_type, requests[k].block_size,
                         requests[k].timeout, requests[k].command,
                         requests[k].offset, requests[k].size)

(***************************************************************************)
(* Properties of verify, auto_enter, reconnection, termination and the     *)
(* validation of configuration and firmware (checked under Spec).          *)
(***************************************************************************)
IsCrcRequest(r) == r.command = ReadProgramCrc

CrcRequests == SelectSeq(requests, IsCrcRequest)

\* C14: verify_firmware issues ReadProgramCrc(fw_addr, fw_size); with the
\* CRC the device reported equal to the CRC32 of the loaded image it returns
\* success, and with any other CRC it returns VerificationFailed.
C14_VerifyByCrc ==
    device_crc # NoCrc =>
       /\ "verify" \in Range(stages)
       /\ Last(CrcRequests) = Request("ReadRequest", 4, 0, ReadProgramCrc,
                                      info.firmware_address, info.firmware_size)
       /\ device_crc = calculate_crc32(firmware) =>
             /\ result # "VerificationFailed"
             /\ pc \in {"quit", "auto_exit", "done"}
                \/ (pc = "failed" /\ Last(stages) # "verify")
       /\ device_crc # calculate_crc32(firmware) =>
             /\ pc = "failed"
             /\ result = "VerificationFailed"
             /\ Last(stages) = "verify"

\* C14 witness: a device CRC that differs from the image CRC was read and
\* verify_firmware has returned.
C14_Witness ==
    /\ device_crc # NoCrc
    /\ device_crc # calculate_crc32(firmware)
    /\ pc = "failed"
    /\ Last(stages) = "verify"

\* C15: in auto_enter the reboot command is sent iff the first probe failed,
\* and is followed by exactly one re-probe; a successful first probe is
\* followed by no reboot and no second probe; a failed re-probe fails
\* update() before any info read, write or quit; there are at most two
\* probes and at most one reboot command.
C15_AutoEnter ==
    /\ Len(probes) <= 2
    /\ reboots <= 1
    /\ reboots = 1 => Len(probes) >= 1 /\ ~probes[1]
    /\ (Len(probes) >= 1 /\ ~probes[1] /\ pc # "reboot") => reboots = 1
    /\ (Len(probes) >= 1 /\ probes[1]) => Len(probes) = 1 /\ reboots = 0
    /\ (reboots = 1 /\ pc # "reprobe" /\ result # "Io") => Len(probes) = 2
    /\ (reboots = 1 /\ pc # "reprobe" /\ Len(probes) = 1) =>
          pc = "failed" /\ stages = <<"auto_enter">>
    /\ (Len(probes) = 2 /\ ~probes[2]) =>
          /\ pc = "failed"
          /\ result = "BootloaderNotDetected"
          /\ stages = <<"auto_enter">>
          /\ \A k \in DOMAIN requests :
                requests[k].command \notin
                   {ReadProgramCrc, BootloaderQuit, WriteProgramMemory}

\* C15 witness: the first probe failed, the reboot command was sent, the
\* re-probe succeeded and update() went on to completion.
C15_Witness ==
    /\ probes = <<FALSE, TRUE>>
    /\ reboots = 1
    /\ pc = "done"
    /\ "read_info" \in Range(stages)

\* const MAX_RECONNECTION_ATTEMPTS: usize = 3
MAX_RECONNECTION_ATTEMPTS == 3

\* How many times update() has entered stage s.
StageRuns(s) == Cardinality({i \in DOMAIN stages : stages[i] = s})

\* C16: a transport failure is fatal only after the failing stage has been
\* restarted by MAX_RECONNECTION_ATTEMPTS reconnects.
C16_ReconnectBeforeFatal ==
    (pc = "failed" /\ result = "Io") =>
       StageRuns(Last(stages)) = MAX_RECONNECTION_ATTEMPTS + 1

\* update() has returned or panicked, or DfuStream::new has failed.
Finished == pc \in {"done", "failed", "config_error", "panic"}

\* The positions from which new or update() takes a further step: the guards
\* of the actions of Next.
CanStep ==
    pc \in {"new", "idle", "auto_enter", "reboot", "reprobe", "read_info",
            "write", "write_blocks", "verify", "quit", "auto_exit"}

\* C17: update() never waits forever: in every state it has finished or
\* takes a further step, also when the device stops replying.
C17_UpdateReturns == Finished \/ CanStep

\* C18: DfuStream::new fails with a configuration error, before any stage and
\* any transport I/O, exactly when uri is empty or update is set with no
\* filename; for every other configuration it succeeds.
C18_ConfigValidation ==
    pc # "new" =>
       /\ pc = "config_error" <=>
             (config.uri = "" \/ (config.update /\ config.filename = "none"))
       /\ pc = "config_error" =>
             /\ result = "Configuration"
             /\ stages = <<>>
             /\ requests = <<>>
             /\ wire = <<>>
             /\ probes = <<>>

\* C18 witness: new has rejected an update with a uri and no filename.
C18_Witness ==
    /\ pc = "config_error"
    /\ config.uri # ""
    /\ config.update
    /\ config.filename = "none"

\* C19: a configuration with verify set and no filename is rejected by
\* DfuStream::new, and no run of update() fails with NoFirmwareFile after
\* having sent a request to the device.
C19_FilenameRequired ==
    /\ (config.verify /\ config.filename = "none" /\ pc # "new")
          => pc = "config_error"
    /\ result = "NoFirmwareFile" => requests = <<>>

\* C20: no WriteProgramMemory request is issued for an image that
\* validate_firmware rejects; the write stage then fails with
\* FirmwareTooLarge or InvalidDeviceId.
C20_ValidatedBeforeWrite ==
    /\ WriteRequests # <<>> => validate_firmware(firmware, info, config) = "Ok"
    /\ ( /\ stages # <<>>
         /\ Last(stages) = "write"
         /\ current_crc # NoCrc
         /\ ~SkipWrite(current_crc, calculate_crc32(firmware), config.overwrite)
         /\ validate_firmware(firmware, info, config) # "Ok" )
       => pc = "failed" /\ result = validate_firmware(firmware, info, config)

(***************************************************************************)
(* Further properties of the APL handlers (checked under SpecApl).         *)
(***************************************************************************)
\* C23: process_message rejects every packet of type None, ReadRequest or
\* WriteRequest with UnsupportedMessage, leaves block_number and retries
\* unchanged and emits nothing.
C23_UnsupportedRejected ==
    (handled > 0 /\ last_msg.packet_type \in {"None", "ReadRequest", "WriteRequest"})
    => /\ apl_result = "UnsupportedMessage"
       /\ block_number = last_msg.expected
       /\ retries = last_msg.retries_before
       /\ Len(apl_tx) = last_msg.tx_before

\* C23 witness: a WriteRequest packet carrying the expected block number was
\* rejected after earlier blocks and errors.
C23_Witness ==
    /\ handled > 2
    /\ last_msg.packet_type = "WriteRequest"
    /\ last_msg.block_number = last_msg.expected
    /\ last_msg.expected > 0
    /\ last_msg.retries_before > 0
    /\ apl_result = "UnsupportedMessage"

\* C25: in every state of an AplStream 0 <= retries <= max_retries; an Error
\* packet raises retries by at most 1 and never beyond max_retries, and a
\* Data or Ack packet that is accepted resets it to 0.
C25_RetriesBounded ==
    /\ retries \in 0..max_retries
    /\ (handled > 0 /\ last_msg.packet_type = "Error") =>
          /\ retries <= last_msg.retries_before + 1
          /\ last_msg.retries_before = max_retries => retries = max_retries
    /\ (handled > 0 /\ last_msg.packet_type \in {"Data", "Ack"} /\ apl_result = "Ok")
          => retries = 0

\* C25 witness: an Error packet arrived with retries at max_retries, and
\* retries stayed there.
C25_Witness ==
    /\ handled > 0
    /\ last_msg.packet_type = "Error"
    /\ last_msg.retries_before = max_retries
    /\ retries = max_retries
    /\ apl_result = "MaxRetries"

(***************************************************************************)
(* The width of the block counter (checked under SpecWrap).                *)
(***************************************************************************)
\* C26: block_number += 1 is never applied to 65535: no Data or Ack packet
\* is accepted while block_number is u16::MAX.
C26_NoOverflow ==
    ~( /\ handled > 0
       /\ last_msg.packet_type \in {"Data", "Ack"}
       /\ last_msg.block_number = last_msg.expected
       /\ last_msg.expected = U16Max
       /\ apl_result \in {"Ok", "Panic"} )

(***************************************************************************)
(* The image buffer of load_firmware (checked under SpecLoad).             *)
(***************************************************************************)
\* The Data records of the file that cover byte i of the buffer (1-based).
Covering(i) ==
    {k \in DOMAIN hex :
        /\ hex[k].kind = "Data"
        /\ i > hex[k].offset
        /\ i <= hex[k].offset + Len(hex[k].value)}

SetMax(S) == CHOOSE x \in S : \A y \in S : y <= x

\* C21: after load_firmware each byte of the buffer not covered by a Data
\* record equals config.gap_filling, and each covered byte equals the value
\* of the last record that covers it.
C21_GapFilled ==
    load_result.status = "Ok" =>
       /\ Len(load_result.firmware) = max_firmware_size
       /\ \A i \in 1..max_firmware_size :
             load_result.firmware[i] =
                IF Covering(i) = {} THEN gap_filling
                ELSE LET k == SetMax(Covering(i))
                     IN  hex[k].value[i - hex[k].offset]

(***************************************************************************)
(* Properties of the LPL receive path (checked under SpecLpl).             *)
(***************************************************************************)
\* C22: decoding the frame LPL encoding produces for a payload p, through
\* LplMessage::from_bytes and decode_message, yields exactly p.
C22_RoundTrip ==
    \A k \in DOMAIN decodings :
       \A p \in Payloads :
          decodings[k].wire_bytes = Frame(p)
             => decodings[k].status = "Ok" /\ decodings[k].data = p

\* A frame on the wire whose body COBS-decodes to at least 2 bytes, the last
\* two being the CRC16 of the bytes before them.
FrameValid(frame) ==
    LET d == cobs_decode(SubSeq(frame, 2, Len(frame) - 1)) IN
    /\ d # <<-1>>
    /\ Len(d) >= 2
    /\ crc16(SubSeq(d, 1, Len(d) - 2)) = d[Len(d) - 1] + (256 * d[Len(d)])

ValidArrived == SelectSeq(arrived, FrameValid)

\* C24: run() delivers to the APL every arrived frame that COBS-decodes to at
\* least 2 bytes with a verified CRC, in arrival order, and no other frame;
\* once the queue is drained every such frame has been delivered.
C24_DeliversValidFrames ==
    /\ Len(delivered) <= Len(ValidArrived)
    /\ \A k \in DOMAIN delivered :
          apl_to_bytes(delivered[k]) = FramePayload(ValidArrived[k])
    /\ lpl_rx = <<>> => Len(delivered) = Len(ValidArrived)

=============================================================================
